---------------------------- MODULE Spec2Model ----------------------------
(***************************************************************************)
(* A model of the POI discovery-and-ranking pipeline of agents/poi_agent.py *)
(* (class POIAgent), and of a browser session of app.py with the video      *)
(* generation of services/video_service.py.                                 *)
(*                                                                         *)
(* Python values are modelled as follows.                                   *)
(*   str            a TLA+ string ("beach"); substring tests and lower()    *)
(*                  are computed character by character.                    *)
(*   Optional[str]  None is <<>>, a string s is <<s>> (preferences).        *)
(*   dict           a function whose DOMAIN is the dict's key set; a key    *)
(*                  the dict does not hold is not in the DOMAIN.            *)
(*   list           a sequence.                                             *)
(*   float          an integer in fixed point (see ScoreScale).             *)
(*   a raised exception, where a call may raise: the record Raised(msg).    *)
(*   what _call_llm returns: [text |-> an Optional[str]], or [content |-> a  *)
(*                  list] when the content of the message is not a string.  *)
(***************************************************************************)
EXTENDS Integers, Sequences, FiniteSets, TLC

VARIABLES
    \* ---- the harness that applies one helper method to one input
    fn,                 \* the helper applied ("idle" before the application)
    args,               \* its arguments
    out,                \* its return value
    \* ---- one POIAgent and one call of find_points_of_interest
    llm,                \* self.llm: whether a language-model client is configured
    pc,                 \* where the call stands
    preferences,        \* argument
    budget,             \* argument
    max_pois,           \* argument
    directions,         \* what self.gmaps.directions returned
    route_bounds,
    search_terms,
    term,               \* the position of the for loop in search_terms
    page_token,
    pages_fetched,
    pois,               \* the raw places accumulated over terms and pages
    place_ids,          \* the argument of _fetch_place_details_concurrent
    max_workers,        \* the size of its thread pool
    futures,            \* its futures, in the order of submission
    results,            \* its result list (detailed_pois of the caller)
    ranked,
    top_pois,
    summaries,
    ret,                \* the value the call returned
    log,                \* the calls made to the providers and to time.sleep
    \* ---- one browser session of app.py and the file system it runs on
    google_api_key,     \* the text inputs of the sidebar
    gemini_api_key,
    quiz,               \* the answer given in the engagement quiz
    session_state,      \* st.session_state
    ui_pc,              \* where the run of main() stands
    files,              \* the paths that exist in the file system
    video_path,         \* what generate_travel_video returned
    message             \* the last st.error, st.success or status text

harness_vars == <<fn, args, out>>
call_args == <<preferences, budget, max_pois>>
search_vars == <<search_terms, term, page_token, pages_fetched, pois>>
fetch_vars == <<place_ids, max_workers, futures, results>>
rank_vars == <<ranked, top_pois, summaries>>
agent_vars == <<llm, pc, call_args, directions, route_bounds, search_vars, fetch_vars,
                rank_vars, ret, log>>
ui_vars == <<google_api_key, gemini_api_key, quiz, session_state, ui_pc, files,
             video_path, message>>
vars == <<harness_vars, agent_vars, ui_vars>>

-----------------------------------------------------------------------------
(* Python built-ins used by the code *)

\* every list over S of at most n entries
SeqsUpTo(S, n) == UNION {[1..k -> S] : k \in 0..n}

\* dict.get(k, default)
Get(d, k, default) == IF k \in DOMAIN d THEN d[k] ELSE default

\* str.lower(), one character
LowerChar(c) ==
    CASE c = "A" -> "a" [] c = "B" -> "b" [] c = "C" -> "c" [] c = "D" -> "d"
      [] c = "E" -> "e" [] c = "F" -> "f" [] c = "G" -> "g" [] c = "H" -> "h"
      [] c = "I" -> "i" [] c = "J" -> "j" [] c = "K" -> "k" [] c = "L" -> "l"
      [] c = "M" -> "m" [] c = "N" -> "n" [] c = "O" -> "o" [] c = "P" -> "p"
      [] c = "Q" -> "q" [] c = "R" -> "r" [] c = "S" -> "s" [] c = "T" -> "t"
      [] c = "U" -> "u" [] c = "V" -> "v" [] c = "W" -> "w" [] c = "X" -> "x"
      [] c = "Y" -> "y" [] c = "Z" -> "z" [] OTHER -> c

\* str.lower()
RECURSIVE lower(_)
lower(s) ==
    IF Len(s) = 0 THEN ""
    ELSE LowerChar(SubSeq(s, 1, 1)) \o lower(SubSeq(s, 2, Len(s)))

\* `sub in s` for two strings
Contains(sub, s) ==
    \E i \in 1..(Len(s) - Len(sub) + 1) : SubSeq(s, i, i + Len(sub) - 1) = sub

\* `preferences or ""` for an Optional[str]
OrEmpty(p) == IF p = <<>> THEN "" ELSE p[1]


-----------------------------------------------------------------------------
(* POIAgent._parse_preferences *)

\* the terms the keyword tests append, in the order of the if statements
MatchedTerms(preference_lower) ==
    (IF Contains("beach", preference_lower) \/ Contains("sea", preference_lower)
        THEN <<[type |-> "beach", keyword |-> "beach"]>> ELSE <<>>)
    \o (IF Contains("temple", preference_lower) \/ Contains("worship", preference_lower)
        THEN <<[type |-> "hindu_temple", keyword |-> "temple"],
               [type |-> "church", keyword |-> "church"],
               [type |-> "mosque", keyword |-> "mosque"]>> ELSE <<>>)
    \o (IF \/ Contains("hotel", preference_lower)
           \/ Contains("stay", preference_lower)
           \/ Contains("lodging", preference_lower)
        THEN <<[type |-> "lodging", keyword |-> "hotel"]>> ELSE <<>>)
    \o (IF \/ Contains("food", preference_lower)
           \/ Contains("restaurant", preference_lower)
           \/ Contains("local food", preference_lower)
        THEN <<[type |-> "restaurant", keyword |-> "local food"]>> ELSE <<>>)
    \o (IF Contains("historical", preference_lower) \/ Contains("history", preference_lower)
        THEN <<[type |-> "tourist_attraction", keyword |-> "historical site"]>> ELSE <<>>)
    \o (IF Contains("museum", preference_lower)
        THEN <<[type |-> "museum", keyword |-> "museum"]>> ELSE <<>>)
    \o (IF Contains("park", preference_lower)
        THEN <<[type |-> "park", keyword |-> "park"]>> ELSE <<>>)

\* a slip: the generic term is appended whatever matched
WithFallbackAlways(terms) ==
    Append(terms, [type |-> "tourist_attraction", keyword |-> "attraction"])

\* the fallback: `if not search_terms: search_terms.append(...)`
WithFallback(terms) ==
    IF terms = <<>>
    THEN <<[type |-> "tourist_attraction", keyword |-> "attraction"]>>
    ELSE terms

\* the loop over terms that keeps the first term of every (type, keyword)
RECURSIVE UniqueTermsLoop(_, _, _)
UniqueTermsLoop(terms, seen, unique_terms) ==
    IF terms = <<>> THEN unique_terms
    ELSE LET t == Head(terms)
             key == <<Get(t, "type", ""), Get(t, "keyword", "")>>
         IN IF key \notin seen
            THEN UniqueTermsLoop(Tail(terms), seen \cup {key}, Append(unique_terms, t))
            ELSE UniqueTermsLoop(Tail(terms), seen, unique_terms)

\* a slip: the keywords are looked up in the string as it was typed
parse_preferences_case_sensitive(prefs) ==
    UniqueTermsLoop(WithFallback(MatchedTerms(OrEmpty(prefs))), {}, <<>>)

\* a slip: the fallback term is never appended
parse_preferences_no_fallback(prefs) ==
    UniqueTermsLoop(MatchedTerms(lower(OrEmpty(prefs))), {}, <<>>)

_parse_preferences(prefs) ==
    UniqueTermsLoop(WithFallback(MatchedTerms(lower(OrEmpty(prefs)))), {}, <<>>)

-----------------------------------------------------------------------------
(* POIAgent._get_route_bounds *)

\* None, where the code tests a value for truth only: an absent dict is the
\* empty dict and an absent list the empty list
None == <<>>

RECURSIVE SumSeq(_)
SumSeq(l) == IF l = <<>> THEN 0 ELSE Head(l) + SumSeq(Tail(l))

MaxSeq(l) == CHOOSE x \in {l[k] : k \in 1..Len(l)} : \A k \in 1..Len(l) : l[k] <= x
MinSeq(l) == CHOOSE x \in {l[k] : k \in 1..Len(l)} : \A k \in 1..Len(l) : x <= l[k]

\* sum(l) / len(l), kept as the fraction
Mean(l) == [num |-> SumSeq(l), den |-> Len(l)]

\* `if start and "lat" in start and "lng" in start`
HasLatLng(location) == "lat" \in DOMAIN location /\ "lng" \in DOMAIN location

\* a slip: only the first leg of the route is read
CollectFirstLeg(legs, coord) ==
    IF legs = <<>> THEN <<>>
    ELSE LET leg == Head(legs)
             start == Get(leg, "start_location", None)
             end == Get(leg, "end_location", None)
         IN (IF HasLatLng(start) THEN <<start[coord]>> ELSE <<>>)
            \o (IF HasLatLng(end) THEN <<end[coord]>> ELSE <<>>)

\* the values of key `coord` the loop over the legs collects: of every leg the
\* start, then the end
RECURSIVE Collect(_, _)
Collect(legs, coord) ==
    IF legs = <<>> THEN <<>>
    ELSE LET leg == Head(legs)
             start == Get(leg, "start_location", None)
             end == Get(leg, "end_location", None)
         IN (IF HasLatLng(start) THEN <<start[coord]>> ELSE <<>>)
            \o (IF HasLatLng(end) THEN <<end[coord]>> ELSE <<>>)
            \o Collect(Tail(legs), coord)

BoundsOf(latitudes, longitudes) ==
    [center |-> [lat |-> Mean(latitudes), lng |-> Mean(longitudes)],
     northeast |-> [lat |-> MaxSeq(latitudes), lng |-> MaxSeq(longitudes)],
     southwest |-> [lat |-> MinSeq(latitudes), lng |-> MinSeq(longitudes)]]

\* a slip: with no coordinate collected the bounds are those of the point (0, 0)
get_route_bounds_default_origin(route) ==
    LET legs == Get(route, "legs", <<>>)
        latitudes == Collect(legs, "lat")
        longitudes == Collect(legs, "lng")
    IN IF latitudes = <<>> THEN BoundsOf(<<0>>, <<0>>)
       ELSE BoundsOf(latitudes, longitudes)

_get_route_bounds(route) ==
    LET legs == Get(route, "legs", <<>>)
        latitudes == Collect(legs, "lat")
        longitudes == Collect(legs, "lng")
    IN IF legs = <<>> THEN None
       ELSE IF latitudes = <<>> THEN None
       ELSE BoundsOf(latitudes, longitudes)

-----------------------------------------------------------------------------
(* The deduplication step of POIAgent.find_points_of_interest *)

\* `pid in unique`, for the dict `unique` kept as its values in insertion order
HasKey(unique, pid) == \E k \in 1..Len(unique) : unique[k].place_id = pid

\* a slip: every place that has an identifier is kept
RECURSIVE DeduplicateKeepAll(_, _)
DeduplicateKeepAll(places, unique) ==
    IF places = <<>> THEN unique
    ELSE LET p == Head(places)
             pid == Get(p, "place_id", "")
         IN IF pid # ""
            THEN DeduplicateKeepAll(Tail(places), Append(unique, p))
            ELSE DeduplicateKeepAll(Tail(places), unique)

\* a slip: `if pid: unique[pid] = p`, so the last place of an identifier wins
\* (a dict keeps the position of the first insertion of a key)
RECURSIVE DeduplicateLastWins(_, _)
DeduplicateLastWins(places, unique) ==
    IF places = <<>> THEN unique
    ELSE LET p == Head(places)
             pid == Get(p, "place_id", "")
         IN IF pid = "" THEN DeduplicateLastWins(Tail(places), unique)
            ELSE IF HasKey(unique, pid)
            THEN DeduplicateLastWins(Tail(places),
                    [k \in 1..Len(unique) |->
                        IF unique[k].place_id = pid THEN p ELSE unique[k]])
            ELSE DeduplicateLastWins(Tail(places), Append(unique, p))

\* `for p in places: pid = p.get("place_id"); if pid and pid not in unique:
\* unique[pid] = p`, then list(unique.values()). `pid` is falsy when the key
\* is missing (None) and when it is the empty string.
RECURSIVE Deduplicate(_, _)
Deduplicate(places, unique) ==
    IF places = <<>> THEN unique
    ELSE LET p == Head(places)
             pid == Get(p, "place_id", "")
         IN IF pid # "" /\ ~HasKey(unique, pid)
            THEN Deduplicate(Tail(places), Append(unique, p))
            ELSE Deduplicate(Tail(places), unique)

-----------------------------------------------------------------------------
(* POIAgent._filter_by_budget *)

\* `x in l` for a list
InList(x, l) == \E k \in 1..Len(l) : l[k] = x

\* the other mapping, in which price level 1 is Budget and Moderate
budget_map_overlapping ==
    [Budget |-> <<0, 1>>, Moderate |-> <<1, 2>>, Luxury |-> <<3, 4>>]

budget_map ==
    [Budget |-> <<0, 1>>, Moderate |-> <<2>>, Luxury |-> <<3, 4>>]

\* a slip: an unknown tier is read as Moderate
expected_default_moderate(tier) == Get(budget_map, tier, <<2>>)

\* budget_map.get(tier, [0, 1, 2, 3, 4])
expected(tier) == Get(budget_map, tier, <<0, 1, 2, 3, 4>>)

\* what the comment above the lookup says and the code does not do: a missing
\* price level is taken as moderate (2)
filter_by_budget_assume_moderate(place_details, tier) ==
    InList(Get(place_details, "price_level", 2), expected(tier))

\* price_level is an integer of the provider (0..4), for which int(price_level)
\* is price_level and does not raise
_filter_by_budget(place_details, tier) ==
    IF "price_level" \notin DOMAIN place_details
    THEN TRUE
    ELSE InList(place_details.price_level, expected(tier))

-----------------------------------------------------------------------------
(* POIAgent._rank_pois *)

\* A score is kept as an integer, ScoreScale times the float of the code. A
\* rating is kept in tenths (45 is 4.5). The ratings and review counts of the
\* model are those for which the float arithmetic of the code is exact.
ScoreScale == 40
RatingScale == 10

Min(a, b) == IF a <= b THEN a ELSE b

\* any(t in poi_types for t in l)
AnyIn(l, poi_types) == \E t \in l : t \in poi_types

\* a slip: the review contribution has no cap
ScoreReviewsUncapped(poi, preference_lower) ==
    LET rating == Get(poi, "rating", 0)
        reviews == Get(poi, "user_ratings_total", 0)
        poi_types == Get(poi, "types", {})
    IN  \* float(rating) * 15.0
        rating * 15 * (ScoreScale \div RatingScale)
        \* reviews / 200.0 * 25.0
        + (reviews * 25 * ScoreScale) \div 200
        + (IF /\ Contains("beach", preference_lower) \/ Contains("sea", preference_lower)
              /\ "beach" \in poi_types
           THEN 80 * ScoreScale ELSE 0)
        + (IF /\ Contains("temple", preference_lower)
              /\ AnyIn({"hindu_temple", "church", "mosque"}, poi_types)
           THEN 80 * ScoreScale ELSE 0)
        + (IF Contains("historical", preference_lower) /\ "tourist_attraction" \in poi_types
           THEN 60 * ScoreScale ELSE 0)
        + (IF /\ Contains("hotel", preference_lower) \/ Contains("stay", preference_lower)
              /\ "lodging" \in poi_types
           THEN 30 * ScoreScale ELSE 0)
        + (IF /\ Contains("food", preference_lower) \/ Contains("restaurant", preference_lower)
              /\ "restaurant" \in poi_types
           THEN 30 * ScoreScale ELSE 0)

Score(poi, preference_lower) ==
    LET rating == Get(poi, "rating", 0)
        reviews == Get(poi, "user_ratings_total", 0)
        poi_types == Get(poi, "types", {})
    IN  \* float(rating) * 15.0
        rating * 15 * (ScoreScale \div RatingScale)
        \* min(reviews / 200.0 * 25.0, 25.0)
        + Min((reviews * 25 * ScoreScale) \div 200, 25 * ScoreScale)
        + (IF /\ Contains("beach", preference_lower) \/ Contains("sea", preference_lower)
              /\ "beach" \in poi_types
           THEN 80 * ScoreScale ELSE 0)
        + (IF /\ Contains("temple", preference_lower)
              /\ AnyIn({"hindu_temple", "church", "mosque"}, poi_types)
           THEN 80 * ScoreScale ELSE 0)
        + (IF Contains("historical", preference_lower) /\ "tourist_attraction" \in poi_types
           THEN 60 * ScoreScale ELSE 0)
        + (IF /\ Contains("hotel", preference_lower) \/ Contains("stay", preference_lower)
              /\ "lodging" \in poi_types
           THEN 30 * ScoreScale ELSE 0)
        + (IF /\ Contains("food", preference_lower) \/ Contains("restaurant", preference_lower)
              /\ "restaurant" \in poi_types
           THEN 30 * ScoreScale ELSE 0)

\* the (score, poi) pairs, in the order of pois
Scored(places, preference_lower) ==
    [k \in 1..Len(places) |-> [score |-> Score(places[k], preference_lower), poi |-> places[k]]]

\* one pair put into a list sorted by descending score, behind its equals
RECURSIVE InsertDesc(_, _)
InsertDesc(sorted, x) ==
    IF sorted = <<>> THEN <<x>>
    ELSE IF Head(sorted).score >= x.score
         THEN <<Head(sorted)>> \o InsertDesc(Tail(sorted), x)
         ELSE <<x>> \o sorted

\* one pair put into a list sorted by ascending score, behind its equals
RECURSIVE InsertAsc(_, _)
InsertAsc(sorted, x) ==
    IF sorted = <<>> THEN <<x>>
    ELSE IF Head(sorted).score <= x.score
         THEN <<Head(sorted)>> \o InsertAsc(Tail(sorted), x)
         ELSE <<x>> \o sorted

RECURSIVE SortAsc(_)
SortAsc(scored) ==
    IF scored = <<>> THEN <<>>
    ELSE InsertAsc(SortAsc(SubSeq(scored, 1, Len(scored) - 1)), scored[Len(scored)])

Reverse(l) == [k \in 1..Len(l) |-> l[Len(l) + 1 - k]]

\* a slip: scored.sort(key=...) followed by scored.reverse()
SortAscThenReverse(scored) == Reverse(SortAsc(scored))

\* scored.sort(key=lambda x: x[0], reverse=True): list.sort is stable, and
\* reverse=True keeps the order of equal keys
RECURSIVE SortDescending(_)
SortDescending(scored) ==
    IF scored = <<>> THEN <<>>
    ELSE InsertDesc(SortDescending(SubSeq(scored, 1, Len(scored) - 1)), scored[Len(scored)])

_rank_pois(places, prefs) ==
    LET sorted == SortDescending(Scored(places, lower(OrEmpty(prefs))))
    IN [k \in 1..Len(sorted) |-> sorted[k].poi]

-----------------------------------------------------------------------------
(* The providers: directions, places_nearby and place of the maps client,   *)
(* and the language model. A call returns Ok(value) or raises.              *)

Ok(value) == [ok |-> value]
Raised(msg) == [raised |-> msg]
IsRaised(r) == "raised" \in DOMAIN r

\* the place identifiers of the provider
PlaceIds == {"p1", "p2"}

\* the entries of a nearby search: a place of every identifier, and one
\* without place_id
NearbyPlaces ==
    {[place_id |-> i, name |-> i] : i \in PlaceIds} \cup {[name |-> "unnamed"]}

\* how many raw places the provider returns during one call, over all pages
MaxRaw == 2

\* the detail record of a place: a beach without price level and a very
\* expensive restaurant
DetailOf(pid) ==
    CASE pid = "p1" -> [place_id |-> "p1", name |-> "Beach", rating |-> 45,
                        user_ratings_total |-> 300, types |-> {"beach"}]
      [] OTHER -> [place_id |-> pid, name |-> "Grill", rating |-> 40,
                   user_ratings_total |-> 50, types |-> {"restaurant"},
                   price_level |-> 4]

\* a route of one leg from (6, 80) to (7, 79), routes without coordinates
Routes ==
    { [legs |-> <<[start_location |-> [lat |-> 6, lng |-> 80],
                   end_location |-> [lat |-> 7, lng |-> 79]]>>],
      [legs |-> <<>>],
      [summary |-> "no legs key"],
      [legs |-> <<[start_location |-> [lat |-> 6], end_location |-> [lng |-> 79]],
                  [distance |-> "1 km"]>>] }

DirectionsResponses ==
    {Raised("directions failed"), Ok(<<>>)} \cup {Ok(<<route>>) : route \in Routes}

\* a page of at most `room` places, with or without a continuation token
PlacesResponses(room) ==
    {Raised("places_nearby failed")}
    \cup {Ok([results |-> r]) : r \in SeqsUpTo(NearbyPlaces, room)}
    \cup {Ok([results |-> r, next_page_token |-> "token"]) :
            r \in SeqsUpTo(NearbyPlaces, room)}

\* the identifiers the details provider has a place for: those of the nearby
\* search and a second restaurant
KnownPlaceIds == PlaceIds \cup {"p3"}

\* the detail request of one identifier fails, finds nothing, or finds the
\* place when the provider has one
PlaceResponses(pid) ==
    {Raised("place failed"), Ok([status |-> "NOT_FOUND"])}
    \cup (IF pid \in KnownPlaceIds THEN {Ok([result |-> DetailOf(pid)])} ELSE {})

\* what _call_llm returns: None, or a text
LlmResults == {<<>>, <<" A  calm place. ">>}

\* _call_llm returns what the client's message holds: [text |-> an
\* Optional[str]], or [content |-> a list of parts] when the content of the
\* message is not a string
LlmReturns ==
    {[text |-> t] : t \in LlmResults} \cup {[content |-> <<"A calm place.">>]}

-----------------------------------------------------------------------------
(* POIAgent._call_llm. The client is the record of the interfaces it has    *)
(* (generate, call for llm(prompt), predict, invoke), each with what it     *)
(* does when it is called with the prompt: Ok(value) or Raised(msg). A      *)
(* Python value of a response is Str(s), Obj(its attributes), Dict(its      *)
(* items) or List(l).                                                       *)

Str(s) == [str |-> s]
Obj(attrs) == [attrs |-> attrs]
Dict(items) == [items |-> items]
List(l) == [list |-> l]

\* isinstance(x, str), hasattr(x, name), isinstance(x, dict) and name in x
IsStr(x) == "str" \in DOMAIN x
HasAttr(x, name) == "attrs" \in DOMAIN x /\ name \in DOMAIN x.attrs
HasItem(x, name) == "items" \in DOMAIN x /\ name \in DOMAIN x.items

\* the value a return statement of _call_llm hands back, as the summary step
\* sees it
Returned(v) == IF IsStr(v) THEN [text |-> <<v.str>>] ELSE [content |-> v.list]
ReturnedNone == [text |-> <<>>]

\* lines 339-351: what the generate step returns, <<>> when it falls through
GenerateStep(client) ==
    IF "generate" \notin DOMAIN client THEN <<>>
    ELSE IF IsRaised(client.generate) THEN <<>>
    ELSE LET response == client.generate.ok
             gens == response.attrs.generations
         IN IF /\ HasAttr(response, "generations")
               /\ gens # <<>>
               /\ gens[1] # <<>>
               /\ HasAttr(gens[1][1], "text")
            THEN <<gens[1][1].attrs.text>>
            ELSE IF HasItem(response, "text") THEN <<response.items.text>>
            ELSE <<>>

\* lines 354-364: what the callable step returns
CallableStep(client) ==
    IF "call" \notin DOMAIN client THEN <<>>
    ELSE IF IsRaised(client.call) THEN <<>>
    ELSE LET resp == client.call.ok
         IN IF IsStr(resp) THEN <<resp>>
            ELSE IF HasAttr(resp, "content") THEN <<resp.attrs.content>>
            ELSE IF HasItem(resp, "content") THEN <<resp.items.content>>
            ELSE <<>>

\* lines 367-377: one round of the loop over ("predict", "invoke")
MethodStep(client, method_name) ==
    IF method_name \notin DOMAIN client THEN <<>>
    ELSE IF IsRaised(client[method_name]) THEN <<>>
    ELSE LET r == client[method_name].ok
         IN IF IsStr(r) THEN <<r>>
            ELSE IF HasAttr(r, "content") THEN <<r.attrs.content>>
            ELSE <<>>

_call_llm(client) ==
    IF client = None THEN ReturnedNone
    ELSE IF GenerateStep(client) # <<>> THEN Returned(GenerateStep(client)[1])
    ELSE IF CallableStep(client) # <<>> THEN Returned(CallableStep(client)[1])
    ELSE IF MethodStep(client, "predict") # <<>> THEN Returned(MethodStep(client, "predict")[1])
    ELSE IF MethodStep(client, "invoke") # <<>> THEN Returned(MethodStep(client, "invoke")[1])
    ELSE ReturnedNone

-----------------------------------------------------------------------------
(* POIAgent.find_points_of_interest and the methods it calls *)

VALID_PLACE_TYPES ==
    {"restaurant", "lodging", "tourist_attraction", "museum",
     "church", "mosque", "hindu_temple", "beach", "park", "cafe",
     "bar", "zoo", "aquarium"}

\* the default of radius_meters
RADIUS_METERS == 20000

\* the default of max_workers
MAX_WORKERS == 8

\* the page limit of the while loop
MAX_PAGES == 3

\* lines 87-103, the params of the first page of a term: a truthy type
\* outside VALID_PLACE_TYPES becomes None, and the None values are removed.
\* A slip: the type is sent as it is
FirstPageParamsUnsanitized(t, bounds, radius) ==
    LET base == [location |-> <<bounds.center.lat, bounds.center.lng>>,
                 radius |-> radius,
                 keyword |-> t.keyword]
    IN IF "type" \notin DOMAIN t THEN base
       ELSE [k \in DOMAIN base \cup {"type"} |-> IF k = "type" THEN t.type ELSE base[k]]

FirstPageParams(t, bounds, radius) ==
    LET base == [location |-> <<bounds.center.lat, bounds.center.lng>>,
                 radius |-> radius,
                 keyword |-> t.keyword]
    IN IF "type" \notin DOMAIN t THEN base
       ELSE IF t.type # "" /\ t.type \notin VALID_PLACE_TYPES THEN base
       ELSE [k \in DOMAIN base \cup {"type"} |-> IF k = "type" THEN t.type ELSE base[k]]

\* the params of the call: the bounds of the route, the default radius
Params(t) == FirstPageParams(t, route_bounds, RADIUS_METERS)

\* the test of the while loop. A slip: one page more
LoopContinuesInclusive(fetched) == fetched <= MAX_PAGES

LoopContinues(fetched) == fetched < MAX_PAGES

\* _get_place_details: `detail.get("result", {}) or {}`, and {} when the
\* request raises
_get_place_details(response) ==
    IF IsRaised(response) THEN <<>> ELSE Get(response.ok, "result", <<>>)

\* a slip: a failed fetch abandons what the batch has collected
CollectAbandonOnFailure(results_so_far, res) ==
    IF res # <<>> THEN Append(results_so_far, res) ELSE <<>>

\* `res = fut.result(); if res: results.append(res)`
CollectResult(results_so_far, res) ==
    IF res # <<>> THEN Append(results_so_far, res) ELSE results_so_far

\* a slip: one worker per identifier, whatever max_workers
PoolSizeUncapped(workers, n) == IF n = 0 THEN 1 ELSE n

\* min(max_workers, len(place_ids) or 1)
PoolSize(workers, n) == Min(workers, IF n = 0 THEN 1 ELSE n)

\* a slip: the cut keeps one place more
SliceInclusive(l, n) == SubSeq(l, 1, Min(n + 1, Len(l)))

\* l[:n]
SliceTo(l, n) ==
    IF n >= 0 THEN SubSeq(l, 1, Min(n, Len(l)))
    ELSE SubSeq(l, 1, IF Len(l) + n > 0 THEN Len(l) + n ELSE 0)

\* " ".join(s.split()), for the blank as the only whitespace
RECURSIVE JoinSplit(_, _, _)
JoinSplit(s, acc, gap) ==
    IF Len(s) = 0 THEN acc
    ELSE LET c == SubSeq(s, 1, 1)
             rest == SubSeq(s, 2, Len(s))
         IN IF c = " " THEN JoinSplit(rest, acc, Len(acc) > 0)
            ELSE JoinSplit(rest, acc \o (IF gap THEN " " ELSE "") \o c, FALSE)

\* an Optional[str] is truthy when it is a non-empty string
Truthy(s) == s # <<>> /\ s[1] # ""

\* `if summary: poi["summary"] = summary`, over zip(top_pois, summaries)
Merge(top, sums) ==
    [k \in 1..Len(top) |->
        IF k <= Len(sums) /\ Truthy(sums[k])
        THEN [f \in DOMAIN top[k] \cup {"summary"} |->
                IF f = "summary" THEN sums[k][1] ELSE top[k][f]]
        ELSE top[k]]

\* the record the except clause of find_points_of_interest returns
ErrorRecord(msg) == <<[error |-> "POI search failed: " \o msg]>>

AgentInit ==
    /\ llm \in BOOLEAN
    /\ pc = "idle"
    /\ preferences = <<>>
    /\ budget = "Moderate"
    /\ max_pois = 8
    /\ directions = <<>>
    /\ route_bounds = None
    /\ search_terms = <<>>
    /\ term = 0
    /\ page_token = ""
    /\ pages_fetched = 0
    /\ pois = <<>>
    /\ place_ids = <<>>
    /\ max_workers = 0
    /\ futures = <<>>
    /\ results = <<>>
    /\ ranked = <<>>
    /\ top_pois = <<>>
    /\ summaries = <<>>
    /\ ret = <<>>
    /\ log = <<>>

\* the arguments of the call
PreferenceArgs == {<<"beach">>, <<"Sea food">>}
BudgetArgs == {"Moderate", "Premium"}
MaxPoisArgs == {0, 1, 8}

\* `return value`
Return(value) ==
    /\ pc' = "done"
    /\ ret' = value

\* a slip: no except clause around the body, the exception leaves the call
ExceptReraise(msg) ==
    /\ pc' = "raised"
    /\ ret' = ret

\* lines 161-163: `except Exception as e` around the whole body
Except(msg) == Return(ErrorRecord(msg))

Call ==
    /\ pc = "idle"
    /\ UNCHANGED <<harness_vars, ui_vars>>
    /\ \E p \in PreferenceArgs, b \in BudgetArgs, m \in MaxPoisArgs :
        /\ preferences' = p
        /\ budget' = b
        /\ max_pois' = m
    /\ pc' = "directions"
    /\ UNCHANGED <<llm, directions, route_bounds, search_vars, fetch_vars, rank_vars,
                   ret, log>>

\* lines 68-85: the directions request, the bounds, the search terms
Directions ==
    /\ pc = "directions"
    /\ UNCHANGED <<harness_vars, ui_vars>>
    /\ \E response \in DirectionsResponses :
        /\ log' = Append(log, [api |-> "directions", response |-> response])
        /\ IF IsRaised(response)
           THEN /\ Except(response.raised)
                /\ UNCHANGED <<directions, route_bounds, search_vars>>
           ELSE /\ directions' = response.ok
                /\ IF response.ok = <<>>
                   THEN /\ Return(<<>>)
                        /\ UNCHANGED <<route_bounds, search_vars>>
                   ELSE LET bounds == _get_route_bounds(response.ok[1])
                        IN /\ route_bounds' = bounds
                           /\ IF bounds = None
                              THEN /\ Return(<<>>)
                                   /\ UNCHANGED search_vars
                              ELSE /\ search_terms' = _parse_preferences(preferences)
                                   /\ term' = 1
                                   /\ page_token' = ""
                                   /\ pages_fetched' = 0
                                   /\ pois' = <<>>
                                   /\ pc' = "search"
                                   /\ UNCHANGED ret
    /\ UNCHANGED <<llm, call_args, fetch_vars, rank_vars>>

\* lines 125-139: after the last term. No place found returns []; else the
\* places are deduplicated and one detail fetch per identifier is submitted
FinishSearch(all_pois) ==
    IF all_pois = <<>>
    THEN /\ Return(<<>>)
         /\ UNCHANGED fetch_vars
    ELSE LET pois_list == Deduplicate(all_pois, <<>>)
             ids == [k \in 1..Len(pois_list) |-> pois_list[k].place_id]
         IN /\ place_ids' = ids
            /\ max_workers' = PoolSize(MAX_WORKERS, Len(ids))
            /\ futures' = [k \in 1..Len(ids) |->
                            [pid |-> ids[k], state |-> "pending",
                             response |-> <<>>, result |-> <<>>]]
            /\ results' = <<>>
            /\ pc' = "fetch"
            /\ UNCHANGED ret

\* the while loop of one term ends (break, or pages_fetched reached 3): the
\* for loop goes to the next term, or the search is over
EndTerm(all_pois, token, fetched) ==
    /\ pois' = all_pois
    /\ IF term < Len(search_terms)
       THEN /\ term' = term + 1
            /\ page_token' = ""
            /\ pages_fetched' = 0
            /\ pc' = "search"
            /\ UNCHANGED <<fetch_vars, ret>>
       ELSE /\ term' = term
            /\ page_token' = token
            /\ pages_fetched' = fetched
            /\ FinishSearch(all_pois)

\* a slip: a failed page request ends the whole search
OnPageFailureEndSearch ==
    /\ pois' = pois
    /\ UNCHANGED <<term, page_token, pages_fetched>>
    /\ FinishSearch(pois)

\* lines 109-111: `except Exception: ... break` leaves the while loop of the term
OnPageFailure == EndTerm(pois, page_token, pages_fetched)

\* lines 94-120: one places_nearby request of the while loop and its response
PlacesNearby ==
    /\ pc = "search"
    /\ UNCHANGED <<harness_vars, ui_vars>>
    /\ \E response \in PlacesResponses(MaxRaw - Len(pois)) :
        /\ log' = Append(log,
                    IF page_token # ""
                    THEN [api |-> "places_nearby", term |-> term,
                          page_token |-> page_token, failed |-> IsRaised(response)]
                    ELSE [api |-> "places_nearby", term |-> term,
                          params |-> Params(search_terms[term]),
                          failed |-> IsRaised(response)])
        /\ IF IsRaised(response)
           THEN OnPageFailure
           ELSE LET found == Get(response.ok, "results", <<>>)
                    token == Get(response.ok, "next_page_token", "")
                IN IF token = ""
                   THEN EndTerm(pois \o found, token, pages_fetched)
                   ELSE /\ pois' = pois \o found
                        /\ page_token' = token
                        /\ pc' = "sleep"
                        /\ UNCHANGED <<term, pages_fetched, fetch_vars, ret>>
    /\ UNCHANGED <<llm, call_args, directions, route_bounds, search_terms, rank_vars>>

\* a slip: the loop goes to the next page without the delay
SleepNoDelay ==
    /\ pc = "sleep"
    /\ UNCHANGED <<harness_vars, ui_vars>>
    /\ log' = log
    /\ IF LoopContinues(pages_fetched + 1)
       THEN /\ pages_fetched' = pages_fetched + 1
            /\ pc' = "search"
            /\ UNCHANGED <<term, page_token, pois, fetch_vars, ret>>
       ELSE EndTerm(pois, page_token, pages_fetched + 1)
    /\ UNCHANGED <<llm, call_args, directions, route_bounds, search_terms, rank_vars>>

\* lines 121-123 and the loop test: time.sleep(2), pages_fetched += 1
Sleep ==
    /\ pc = "sleep"
    /\ UNCHANGED <<harness_vars, ui_vars>>
    /\ log' = Append(log, [api |-> "sleep", tenths |-> 20])
    /\ IF LoopContinues(pages_fetched + 1)
       THEN /\ pages_fetched' = pages_fetched + 1
            /\ pc' = "search"
            /\ UNCHANGED <<term, page_token, pois, fetch_vars, ret>>
       ELSE EndTerm(pois, page_token, pages_fetched + 1)
    /\ UNCHANGED <<llm, call_args, directions, route_bounds, search_terms, rank_vars>>

Running == {k \in 1..Len(futures) : futures[k].state = "running"}

\* a free worker of the pool takes the oldest pending work item and sends the
\* detail request
WorkerStart ==
    /\ pc = "fetch"
    /\ UNCHANGED <<harness_vars, ui_vars>>
    /\ Cardinality(Running) < max_workers
    /\ \E k \in 1..Len(futures) :
        /\ futures[k].state = "pending"
        /\ \A j \in 1..(k - 1) : futures[j].state # "pending"
        /\ futures' = [futures EXCEPT ![k].state = "running"]
        /\ log' = Append(log, [api |-> "place", place_id |-> futures[k].pid])
    /\ UNCHANGED <<llm, pc, call_args, directions, route_bounds, search_vars,
                   place_ids, max_workers, results, rank_vars, ret>>

\* a detail request ends; as_completed hands the future to the caller, who
\* appends its result when it is not empty
WorkerFinish ==
    /\ pc = "fetch"
    /\ UNCHANGED <<harness_vars, ui_vars>>
    /\ \E k \in Running :
        \E response \in PlaceResponses(futures[k].pid) :
            LET res == _get_place_details(response)
            IN /\ futures' = [futures EXCEPT ![k].state = "done",
                                              ![k].response = response,
                                              ![k].result = res]
               /\ results' = CollectResult(results, res)
    /\ UNCHANGED <<llm, pc, call_args, directions, route_bounds, search_vars,
                   place_ids, max_workers, rank_vars, ret, log>>

\* a slip: the caller goes on as soon as one future has completed
FirstCompleted(fs) == fs = <<>> \/ \E k \in 1..Len(fs) : fs[k].state = "done"

\* lines 255-263: the loop over as_completed(futures) ends when every future
\* has completed, and so does the with block of the executor
AllCompleted(fs) == \A k \in 1..Len(fs) : fs[k].state = "done"

\* lines 141-159, once the with block has waited for every future: filter,
\* rank, cut; without a language model the call returns
FilterAndRank ==
    /\ pc = "fetch"
    /\ UNCHANGED <<harness_vars, ui_vars>>
    /\ AllCompleted(futures)
    /\ LET filtered == SelectSeq(results, LAMBDA d : _filter_by_budget(d, budget))
           r == _rank_pois(filtered, preferences)
       IN /\ ranked' = r
          /\ top_pois' = SliceTo(r, max_pois)
          /\ summaries' = <<>>
          /\ IF llm /\ SliceTo(r, max_pois) # <<>>
             THEN /\ pc' = "summarize"
                  /\ UNCHANGED ret
             ELSE Return(SliceTo(r, max_pois))
    /\ UNCHANGED <<llm, call_args, directions, route_bounds, search_vars, fetch_vars, log>>

\* one round of the loop of _summarize_pois_with_llm; after the last one the
\* summaries are merged into the places and the call returns. A truthy
\* summary that is not a string has no split(): the AttributeError leaves
\* _summarize_pois_with_llm and is caught by the except clause of the call
Summarize ==
    /\ pc = "summarize"
    /\ UNCHANGED <<harness_vars, ui_vars>>
    /\ \E returned \in LlmReturns :
        /\ log' = log \o <<[api |-> "llm", poi |-> Len(summaries) + 1,
                             returned |-> returned]>>
                       \o (IF "content" \in DOMAIN returned THEN <<>>
                           ELSE <<[api |-> "sleep", tenths |-> 2]>>)
        /\ IF "content" \in DOMAIN returned
           THEN /\ Except("'list' object has no attribute 'split'")
                /\ UNCHANGED <<summaries, top_pois>>
           ELSE LET text == returned.text
                    summary == IF Truthy(text) THEN <<JoinSplit(text[1], "", FALSE)>>
                               ELSE text
                    all == Append(summaries, summary)
                IN /\ summaries' = all
                   /\ IF Len(all) = Len(top_pois)
                      THEN /\ top_pois' = Merge(top_pois, all)
                           /\ Return(Merge(top_pois, all))
                      ELSE UNCHANGED <<top_pois, pc, ret>>
    /\ UNCHANGED <<llm, call_args, directions, route_bounds, search_vars, fetch_vars, ranked>>

-----------------------------------------------------------------------------
(* app.py: one browser session. Streamlit runs main() from the top on the   *)
(* first load and after every interaction; st.session_state lives across    *)
(* the runs. services/video_service.py: VideoGenerator.generate_travel_video *)

\* a slip: the keys are set on every run, present or not
initialize_session_state_always(state) ==
    [itinerary |-> None, user_preferences |-> <<>>, video_script |-> None,
     video_generated |-> FALSE]

\* lines 14-23: a key that session_state does not hold gets its default
initialize_session_state(state) ==
    LET defaults == [itinerary |-> None, user_preferences |-> <<>>,
                     video_script |-> None, video_generated |-> FALSE]
    IN [k \in DOMAIN state \cup DOMAIN defaults |->
            IF k \in DOMAIN state THEN state[k] ELSE defaults[k]]

\* the itinerary is None or <<the dict create_itinerary built>>, which is
\* not empty; the script is None or <<the content of the model's message>>
ItineraryTruthy(state) == state.itinerary # None

\* lines 100-105: with an itinerary the quiz is shown and what it returns is
\* stored, on every run
Personalize(state, answer) ==
    IF ItineraryTruthy(state)
    THEN [state EXCEPT !.user_preferences = [travel_companions |-> answer]]
    ELSE state

\* what the widgets and the collaborators give
ApiKeys == {"", "key"}
QuizAnswers == {"Solo", "Couple"}
CreateItineraryOutcomes ==
    {Raised("create_itinerary failed")}
    \cup {Ok([from |-> "Matara", to |-> "Kataragama", budget |-> b]) :
            b \in {"Budget", "Luxury"}}
GenerateScriptOutcomes ==
    {Raised("generate_video_script failed"), Ok(""),
     Ok("[SCENE 1] VISUAL: the coast NARRATION: Welcome")}

\* tempfile.TemporaryDirectory() and os.path.join(temp_dir, ...)
TempDir == "/tmp/tmpdir"
OutputPath == TempDir \o "/final_travel_story.mp4"

\* shutil.rmtree(temp_dir): the directory and what is below it
Cleanup(paths) == paths \ {TempDir, OutputPath}

UiInit ==
    /\ google_api_key = ""
    /\ gemini_api_key = ""
    /\ quiz = "Solo"
    /\ session_state = <<>>
    /\ ui_pc = "start"
    /\ files = {}
    /\ video_path = None
    /\ message = ""

\* the first load of the page
Load ==
    /\ ui_pc = "start"
    /\ session_state' = Personalize(initialize_session_state(session_state), quiz)
    /\ ui_pc' = "idle"
    /\ UNCHANGED <<google_api_key, gemini_api_key, quiz, files, video_path, message>>
    /\ UNCHANGED <<harness_vars, agent_vars>>

\* lines 40-48: the user types the keys into the sidebar
EnterKeys ==
    /\ ui_pc = "idle"
    /\ \E g \in ApiKeys, k \in ApiKeys :
        /\ google_api_key' = g
        /\ gemini_api_key' = k
    /\ session_state' = Personalize(initialize_session_state(session_state), quiz)
    /\ UNCHANGED <<quiz, ui_pc, files, video_path, message>>
    /\ UNCHANGED <<harness_vars, agent_vars>>

\* lines 100-105: the quiz is on the page when there is an itinerary
AnswerQuiz ==
    /\ ui_pc = "idle"
    /\ ItineraryTruthy(session_state)
    /\ \E answer \in QuizAnswers :
        /\ quiz' = answer
        /\ session_state' = Personalize(initialize_session_state(session_state), answer)
    /\ UNCHANGED <<google_api_key, gemini_api_key, ui_pc, files, video_path, message>>
    /\ UNCHANGED <<harness_vars, agent_vars>>

\* lines 71-95: the button Generate Itinerary
PressGenerateItinerary ==
    /\ ui_pc = "idle"
    /\ LET state == initialize_session_state(session_state)
       IN IF google_api_key = "" \/ gemini_api_key = ""
          THEN \* `return`: the rest of main() does not run
               /\ session_state' = state
               /\ message' = "Please enter both API keys in the sidebar"
          ELSE \E outcome \in CreateItineraryOutcomes :
                 IF IsRaised(outcome)
                 THEN /\ session_state' = Personalize(state, quiz)
                      /\ message' = "Error generating itinerary: " \o outcome.raised
                 ELSE /\ session_state' =
                            Personalize([state EXCEPT !.itinerary = <<outcome.ok>>], quiz)
                      /\ message' = "Itinerary generated successfully!"
    /\ UNCHANGED <<google_api_key, gemini_api_key, quiz, ui_pc, files, video_path>>
    /\ UNCHANGED <<harness_vars, agent_vars>>

\* lines 107-121: the button Generate Video Script, on the page when there
\* is an itinerary
PressGenerateScript ==
    /\ ui_pc = "idle"
    /\ ItineraryTruthy(session_state)
    /\ LET state == Personalize(initialize_session_state(session_state), quiz)
       IN \E outcome \in GenerateScriptOutcomes :
            IF IsRaised(outcome)
            THEN /\ session_state' = state
                 /\ message' = "Error generating script: " \o outcome.raised
            ELSE /\ session_state' = [state EXCEPT !.video_script = <<outcome.ok>>]
                 /\ message' = "Your Video Script"
    /\ UNCHANGED <<google_api_key, gemini_api_key, quiz, ui_pc, files, video_path>>
    /\ UNCHANGED <<harness_vars, agent_vars>>

\* lines 144-169 and video_service.py line 18: the button Generate Video, on
\* the page when the script is truthy; generate_travel_video enters the with
\* block of the temporary directory
PressGenerateVideo ==
    /\ ui_pc = "idle"
    /\ Truthy(session_state.video_script)
    /\ session_state' = Personalize(initialize_session_state(session_state), quiz)
    /\ files' = files \cup {TempDir}
    /\ video_path' = None
    /\ message' = "Generating video scenes..."
    /\ ui_pc' = "in_temp_dir"
    /\ UNCHANGED <<google_api_key, gemini_api_key, quiz>>
    /\ UNCHANGED <<harness_vars, agent_vars>>

\* video_service.py lines 20-55: the clips are built and the video is
\* written into the temporary directory, or a step raises: the with block is
\* left, the except clause returns None
ExportVideo ==
    /\ ui_pc = "in_temp_dir"
    /\ \/ /\ files' = files \cup {OutputPath}
          /\ ui_pc' = "exported"
          /\ UNCHANGED video_path
       \/ /\ files' = Cleanup(files)
          /\ video_path' = None
          /\ ui_pc' = "returned"
    /\ UNCHANGED <<google_api_key, gemini_api_key, quiz, session_state, message>>
    /\ UNCHANGED <<harness_vars, agent_vars>>

\* video_service.py line 57: `return output_path` leaves the with block of
\* line 18, which removes the temporary directory
ReturnOutputPath ==
    /\ ui_pc = "exported"
    /\ files' = Cleanup(files)
    /\ video_path' = <<OutputPath>>
    /\ ui_pc' = "returned"
    /\ UNCHANGED <<google_api_key, gemini_api_key, quiz, session_state, message>>
    /\ UNCHANGED <<harness_vars, agent_vars>>

\* lines 171-197: `if video_path and os.path.exists(video_path)`
DisplayVideo ==
    /\ ui_pc = "returned"
    /\ IF video_path # None /\ video_path[1] \in files
       THEN /\ session_state' = [session_state EXCEPT !.video_generated = TRUE]
            /\ message' = "Video generated successfully!"
       ELSE /\ session_state' = session_state
            /\ message' = "Video generation failed. Please try again."
    /\ ui_pc' = "idle"
    /\ UNCHANGED <<google_api_key, gemini_api_key, quiz, files, video_path>>
    /\ UNCHANGED <<harness_vars, agent_vars>>

UiNext ==
    \/ Load
    \/ EnterKeys
    \/ AnswerQuiz
    \/ PressGenerateItinerary
    \/ PressGenerateScript
    \/ PressGenerateVideo
    \/ ExportVideo
    \/ ReturnOutputPath
    \/ DisplayVideo

Init ==
    /\ fn = "idle"
    /\ args = <<>>
    /\ out = <<>>
    /\ AgentInit
    /\ UiInit

Next ==
    \/ Call
    \/ Directions
    \/ PlacesNearby
    \/ Sleep
    \/ WorkerStart
    \/ WorkerFinish
    \/ FilterAndRank
    \/ Summarize

Spec == Init /\ [][Next]_vars

UiSpec == Init /\ [][UiNext]_vars

-----------------------------------------------------------------------------
(* The call from the detail fetch on (lines 137-159), for an agent without  *)
(* language model and for the identifiers a search can have found: the      *)
(* state in which _fetch_place_details_concurrent has submitted its work.   *)

\* how many identifiers the provider has no place for a search finds
MaxIds == 9

\* lists of different identifiers: of the places the provider has, in every
\* order, and of n identifiers that it has no place for
FoundLists ==
    {l \in SeqsUpTo(KnownPlaceIds, Cardinality(KnownPlaceIds)) :
        \A i, j \in 1..Len(l) : i # j => l[i] # l[j]}
UnknownLists == {[k \in 1..n |-> "x" \o ToString(k)] : n \in 0..MaxIds}

FetchCalls ==
    {[place_ids |-> l, preferences |-> p, budget |-> b, max_pois |-> m] :
        l \in FoundLists, p \in PreferenceArgs, b \in BudgetArgs, m \in MaxPoisArgs}
    \cup {[place_ids |-> l, preferences |-> <<"beach">>, budget |-> "Moderate",
           max_pois |-> 8] : l \in UnknownLists}

\* the route the directions provider returned
RouteFound ==
    [legs |-> <<[start_location |-> [lat |-> 6, lng |-> 80],
                 end_location |-> [lat |-> 7, lng |-> 79]]>>]

\* lines 68-139 have run: every search term got one page, the first page of
\* the first term held a place of every identifier (a place without
\* identifier when there is none), and one fetch per identifier is submitted
FetchInit ==
    /\ fn = "idle"
    /\ args = <<>>
    /\ out = <<>>
    /\ llm = FALSE
    /\ pc = "fetch"
    /\ directions = <<RouteFound>>
    /\ route_bounds = _get_route_bounds(RouteFound)
    /\ page_token = ""
    /\ pages_fetched = 0
    /\ \E call \in FetchCalls :
        LET terms == _parse_preferences(call.preferences)
            ids == call.place_ids
        IN /\ preferences = call.preferences
           /\ budget = call.budget
           /\ max_pois = call.max_pois
           /\ search_terms = terms
           /\ term = Len(terms)
           /\ pois = IF ids = <<>> THEN <<[name |-> "unnamed"]>>
                     ELSE [k \in 1..Len(ids) |-> [place_id |-> ids[k], name |-> ids[k]]]
           /\ place_ids = ids
           /\ max_workers = PoolSize(MAX_WORKERS, Len(ids))
           /\ futures = [k \in 1..Len(ids) |->
                            [pid |-> ids[k], state |-> "pending",
                             response |-> <<>>, result |-> <<>>]]
           /\ log = <<[api |-> "directions", response |-> Ok(<<RouteFound>>)]>>
                    \o [t \in 1..Len(terms) |->
                          [api |-> "places_nearby", term |-> t,
                           params |-> FirstPageParams(terms[t], _get_route_bounds(RouteFound),
                                                      RADIUS_METERS),
                           failed |-> FALSE]]
    /\ results = <<>>
    /\ ranked = <<>>
    /\ top_pois = <<>>
    /\ summaries = <<>>
    /\ ret = <<>>
    /\ UiInit

FetchNext ==
    \/ WorkerStart
    \/ WorkerFinish
    \/ FilterAndRank

FetchSpec == FetchInit /\ [][FetchNext]_vars

-----------------------------------------------------------------------------
(* The inputs of the helper methods *)

\* the words preference strings are built from
PrefWords ==
    {"", "Beach", "seaside", "research", "TEMPLE", "worship", "hotel", "Stay",
     "lodging", "food", "Restaurant", "local", "historical", "History",
     "museum", "parking", "zoo"}

\* how many words a preference string of the harness joins
MaxWords == 2

RECURSIVE PrefStrings(_)
PrefStrings(n) ==
    IF n = 0 THEN {""}
    ELSE LET shorter == PrefStrings(n - 1)
         IN shorter \cup {s \o " " \o w : s \in shorter, w \in PrefWords}

\* the Optional[str] arguments: None and every string of at most MaxWords words
PrefInputs == {<<>>} \cup {<<s>> : s \in PrefStrings(MaxWords)}

\* raw places of the nearby search: with an identifier, with an empty one and
\* with none; the name tells two places of one identifier apart
RawInputs ==
    {[place_id |-> i, name |-> n] : i \in {"p1", "p2", ""}, n \in {"first", "second"}}
    \cup {[name |-> n] : n \in {"first", "second"}}

\* how long a list of raw places the harness deduplicates
MaxDedupLen == 3

\* detail records with every declared price level, and with none
FilterInputs ==
    {[name |-> "n", price_level |-> l] : l \in 0..4} \cup {[name |-> "n"]}

\* the tier names: the three of budget_map and others
BudgetInputs == {"Budget", "Moderate", "Luxury", "moderate", "BUDGET", "Premium", ""}

\* detail records to rank: equal scores by equal fields (the two restaurants),
\* equal scores by the review cap (200 and 300 reviews), missing fields
RankInputs ==
    { [place_id |-> "p1", rating |-> 45, user_ratings_total |-> 300, types |-> {"beach"}],
      [place_id |-> "p2", rating |-> 40, user_ratings_total |-> 50, types |-> {"restaurant"}],
      [place_id |-> "p3", rating |-> 40, user_ratings_total |-> 50, types |-> {"restaurant"}],
      [place_id |-> "p4", rating |-> 45, user_ratings_total |-> 200,
       types |-> {"hindu_temple", "tourist_attraction"}],
      [place_id |-> "p5"],
      [place_id |-> "p6", rating |-> 50, user_ratings_total |-> 0, types |-> {"lodging"}] }

\* how long a list of detail records the harness ranks
MaxRankLen == 3

\* the preferences the harness scores under: None, one word, two words
ScorePrefWords ==
    {"Beach", "sea", "temple", "worship", "historical", "history", "hotel", "stay",
     "lodging", "food", "Restaurant", "zoo"}

ScorePrefInputs ==
    {<<>>} \cup {<<w>> : w \in ScorePrefWords}
    \cup {<<a \o ", " \o b>> : a \in ScorePrefWords, b \in ScorePrefWords}

\* search terms: of a valid type, of a type outside VALID_PLACE_TYPES, and
\* without type
TermInputs ==
    {[type |-> t, keyword |-> "k"] : t \in {"beach", "cafe", "casino", "Beach", "temple"}}
    \cup {[keyword |-> "k"]}

\* the route bounds the harness builds the params with
HarnessBounds == BoundsOf(<<6, 7>>, <<80, 79>>)

\* the endpoints of a leg: three points, and one without lng
LocationInputs ==
    {[lat |-> 6, lng |-> 80], [lat |-> 7, lng |-> 79], [lat |-> -1, lng |-> 81], [lat |-> 6]}

\* legs with both endpoints, with one, and with none
LegInputs ==
    {[start_location |-> a, end_location |-> b] : a \in LocationInputs, b \in LocationInputs}
    \cup {[start_location |-> a] : a \in LocationInputs}
    \cup {[end_location |-> b] : b \in LocationInputs}
    \cup {[distance |-> "1 km"]}

\* how many legs a route of the harness has
MaxLegs == 2

RouteInputs ==
    {[legs |-> l] : l \in SeqsUpTo(LegInputs, MaxLegs)} \cup {[summary |-> "no legs key"]}

\* detail records to score: those above, a place with a tag of every bonus
\* and a mosque just under the review cap
ScoreInputs ==
    RankInputs \cup
    { [place_id |-> "p7", rating |-> 30, user_ratings_total |-> 100,
       types |-> {"beach", "church", "tourist_attraction", "lodging", "restaurant"}],
      [place_id |-> "p8", rating |-> 42, user_ratings_total |-> 199, types |-> {"mosque"}] }

\* the preferences the harness ranks under
RankPrefInputs == {<<>>, <<"Beach">>, <<"temple, food">>, <<"historical hotel">>}

\* an interface the client does not have is <<>>
Opt(S) == {<<>>} \cup {<<x>> : x \in S}

\* what generate returns: a result with generations (with an empty and with a
\* non-empty text, with no generation), a dict with a text, another object
GenerateResponses ==
    {Raised("generate failed")}
    \cup {Ok(Obj([generations |-> <<<<Obj([text |-> Str(t)])>>>>])) : t \in {"", "generate text"}}
    \cup {Ok(Obj([generations |-> <<>>])),
          Ok(Dict([text |-> Str("generate dict text")])),
          Ok(Obj([usage |-> Str("none")]))}

\* what llm(prompt) returns: a string, a message with a content (a string or
\* a list of parts), a dict with a content, another dict
CallResponses ==
    {Raised("call failed")}
    \cup {Ok(Str(t)) : t \in {"", "call text"}}
    \cup {Ok(Obj([content |-> v])) :
            v \in {Str(""), Str("call content"), List(<<"A calm place.">>)}}
    \cup {Ok(Dict([content |-> Str("call dict content")])),
          Ok(Dict([answer |-> Str("none")]))}

\* what predict and invoke return
MethodResponses(method_name) ==
    {Raised(method_name \o " failed"),
     Ok(Str("")),
     Ok(Str(method_name \o " text")),
     Ok(Obj([content |-> Str(method_name \o " content")])),
     Ok(Dict([content |-> Str(method_name \o " dict content")]))}

\* the client that has the interfaces given
ClientOf(g, c, p, i) ==
    LET given == [generate |-> g, call |-> c, predict |-> p, invoke |-> i]
    IN [m \in {n \in DOMAIN given : given[n] # <<>>} |-> given[m][1]]

\* self.llm: None (the client without interface is the same value), and a
\* client of every choice of interfaces
LlmClients ==
    {ClientOf(g, c, p, i) :
        g \in Opt(GenerateResponses), c \in Opt(CallResponses),
        p \in Opt(MethodResponses("predict")), i \in Opt(MethodResponses("invoke"))}

-----------------------------------------------------------------------------
(* The harness: one helper method applied to one input *)

PureInit == Init

Apply_parse_preferences ==
    /\ fn = "idle"
    /\ \E prefs \in PrefInputs :
        /\ fn' = "_parse_preferences"
        /\ args' = [preferences |-> prefs]
        /\ out' = _parse_preferences(prefs)
    /\ UNCHANGED <<agent_vars, ui_vars>>

Apply_deduplicate ==
    /\ fn = "idle"
    /\ \E places \in SeqsUpTo(RawInputs, MaxDedupLen) :
        /\ fn' = "deduplicate"
        /\ args' = [pois |-> places]
        /\ out' = Deduplicate(places, <<>>)
    /\ UNCHANGED <<agent_vars, ui_vars>>

Apply_filter_by_budget ==
    /\ fn = "idle"
    /\ \E place_details \in FilterInputs, tier \in BudgetInputs :
        /\ fn' = "_filter_by_budget"
        /\ args' = [place_details |-> place_details, budget |-> tier]
        /\ out' = _filter_by_budget(place_details, tier)
    /\ UNCHANGED <<agent_vars, ui_vars>>

Apply_rank_pois ==
    /\ fn = "idle"
    /\ \E places \in SeqsUpTo(RankInputs, MaxRankLen), prefs \in RankPrefInputs :
        /\ fn' = "_rank_pois"
        /\ args' = [pois |-> places, preferences |-> prefs]
        /\ out' = _rank_pois(places, prefs)
    /\ UNCHANGED <<agent_vars, ui_vars>>

\* one round of the scoring loop of _rank_pois: the score of one place
Apply_score ==
    /\ fn = "idle"
    /\ \E poi \in ScoreInputs, prefs \in ScorePrefInputs :
        /\ fn' = "score"
        /\ args' = [poi |-> poi, preferences |-> prefs]
        /\ out' = Score(poi, lower(OrEmpty(prefs)))
    /\ UNCHANGED <<agent_vars, ui_vars>>

\* lines 87-103 for one search term
Apply_first_page_params ==
    /\ fn = "idle"
    /\ \E t \in TermInputs :
        /\ fn' = "first_page_params"
        /\ args' = [term |-> t]
        /\ out' = FirstPageParams(t, HarnessBounds, RADIUS_METERS)
    /\ UNCHANGED <<agent_vars, ui_vars>>

Apply_get_route_bounds ==
    /\ fn = "idle"
    /\ \E route \in RouteInputs :
        /\ fn' = "_get_route_bounds"
        /\ args' = [route |-> route]
        /\ out' = _get_route_bounds(route)
    /\ UNCHANGED <<agent_vars, ui_vars>>

Apply_call_llm ==
    /\ fn = "idle"
    /\ \E client \in LlmClients :
        /\ fn' = "_call_llm"
        /\ args' = [llm |-> client]
        /\ out' = _call_llm(client)
    /\ UNCHANGED <<agent_vars, ui_vars>>

PureNext ==
    \/ Apply_parse_preferences
    \/ Apply_score
    \/ Apply_first_page_params
    \/ Apply_get_route_bounds
    \/ Apply_call_llm
    \/ Apply_deduplicate
    \/ Apply_filter_by_budget
    \/ Apply_rank_pois

PureSpec == PureInit /\ [][PureNext]_vars

-----------------------------------------------------------------------------
(* C1: for every preference string, None and the empty string included,     *)
(* _parse_preferences returns a non-empty list in which no two terms have   *)
(* the same (type, keyword) pair.                                           *)
C1_ParseNonEmptyNoDuplicates ==
    fn = "_parse_preferences" =>
        /\ Len(out) >= 1
        /\ \A i, j \in 1..Len(out) :
              i # j => <<out[i].type, out[i].keyword>> # <<out[j].type, out[j].keyword>>

\* a string that matches the temple group and one more keyword group
C1_Witness ==
    /\ fn = "_parse_preferences"
    /\ args.preferences # <<>>
    /\ Len(out) >= 4

-----------------------------------------------------------------------------
(* C2: when the directions provider returns no route, or the route has no  *)
(* legs, or no leg endpoint carries both lat and lng, the call returns the  *)
(* empty list and sends no places_nearby and no place-details request.      *)
NoEndpointWithCoordinates(route) ==
    LET legs == Get(route, "legs", <<>>)
    IN \A k \in 1..Len(legs) :
          /\ ~("start_location" \in DOMAIN legs[k] /\ HasLatLng(legs[k].start_location))
          /\ ~("end_location" \in DOMAIN legs[k] /\ HasLatLng(legs[k].end_location))

C2_NoRouteNoSearch ==
    (/\ Len(log) >= 1
     /\ ~IsRaised(log[1].response)
     /\ \/ log[1].response.ok = <<>>
        \/ NoEndpointWithCoordinates(log[1].response.ok[1])) =>
        /\ pc = "done"
        /\ ret = <<>>
        /\ \A k \in 1..Len(log) : log[k].api \notin {"places_nearby", "place"}

\* a route with legs, none of which has an endpoint with both coordinates
C2_Witness ==
    /\ pc = "done"
    /\ Len(log) = 1
    /\ ~IsRaised(log[1].response)
    /\ log[1].response.ok # <<>>
    /\ Get(log[1].response.ok[1], "legs", <<>>) # <<>>
    /\ NoEndpointWithCoordinates(log[1].response.ok[1])
    /\ ret = <<>>

(* C3: the deduplication step yields a list in which no two entries share a *)
(* place_id, and every place_id of the output is the place_id of an input   *)
(* entry.                                                                   *)
C3_DedupUniqueAndFromInput ==
    fn = "deduplicate" =>
        /\ \A i, j \in 1..Len(out) :
              i # j => Get(out[i], "place_id", "") # Get(out[j], "place_id", "")
        /\ \A i \in 1..Len(out) :
              /\ "place_id" \in DOMAIN out[i]
              /\ \E k \in 1..Len(args.pois) :
                    /\ "place_id" \in DOMAIN args.pois[k]
                    /\ args.pois[k].place_id = out[i].place_id

\* an identifier comes twice in the input, and two identifiers come out
C3_Witness ==
    /\ fn = "deduplicate"
    /\ Len(args.pois) = 3
    /\ Len(out) = 2
    /\ \A k \in 1..3 : Get(args.pois[k], "place_id", "") # ""

(* C4: for every place_id of the input the output holds exactly the         *)
(* earliest input entry with that place_id, and every input entry with a    *)
(* missing or an empty place_id is dropped.                                 *)
C4_DedupFirstOccurrenceWins ==
    fn = "deduplicate" =>
        LET input == args.pois
            Pid(p) == Get(p, "place_id", "")
            First(pid) == CHOOSE k \in 1..Len(input) :
                            /\ Pid(input[k]) = pid
                            /\ \A m \in 1..(k - 1) : Pid(input[m]) # pid
        IN /\ \A k \in 1..Len(input) :
                Pid(input[k]) # "" =>
                    /\ Cardinality({i \in 1..Len(out) : Pid(out[i]) = Pid(input[k])}) = 1
                    /\ \E i \in 1..Len(out) : out[i] = input[First(Pid(input[k]))]
           /\ \A i \in 1..Len(out) : Pid(out[i]) # ""

\* two different entries of one identifier, and an entry without identifier
C4_Witness ==
    /\ fn = "deduplicate"
    /\ \E i, j \in 1..Len(args.pois) :
          /\ i < j
          /\ Get(args.pois[i], "place_id", "") = "p1"
          /\ Get(args.pois[j], "place_id", "") = "p1"
          /\ args.pois[i] # args.pois[j]
    /\ \E k \in 1..Len(args.pois) : "place_id" \notin DOMAIN args.pois[k]
    /\ Len(out) = 1

(* C5: during one call at most one place-details request is sent for one   *)
(* place identifier, however often the searches return the identifier.      *)
DetailRequests(pid) ==
    {k \in 1..Len(log) : log[k].api = "place" /\ log[k].place_id = pid}

C5_OneDetailRequestPerPlace ==
    \A pid \in PlaceIds : Cardinality(DetailRequests(pid)) <= 1

\* the searches returned p1 twice, and its details were requested
C5_Witness ==
    /\ pc = "done"
    /\ DetailRequests("p1") # {}
    /\ \E i, j \in 1..Len(pois) :
          /\ i < j
          /\ Get(pois[i], "place_id", "") = "p1"
          /\ Get(pois[j], "place_id", "") = "p1"
    /\ Cardinality({k \in 1..Len(log) : log[k].api = "places_nearby"}) >= 2

(* C6: some detail fetches fail and the others succeed.                     *)
Failed == {k \in 1..Len(futures) : futures[k].state = "done" /\ IsRaised(futures[k].response)}
Succeeded == {k \in 1..Len(futures) : futures[k].state = "done" /\ futures[k].result # <<>>}
PartialFailure ==
    /\ \A k \in 1..Len(futures) : futures[k].state = "done"
    /\ Failed # {}
    /\ Succeeded # {}

IsErrorRecord(l) == Len(l) = 1 /\ "error" \in DOMAIN l[1]

\* the places of a list without their summaries
WithoutSummary(l) ==
    [k \in 1..Len(l) |-> [f \in DOMAIN l[k] \ {"summary"} |-> l[k][f]]]

(* C6 as claimed: the call does not fail and its output contains every      *)
(* successfully fetched place.                                              *)
C6_OutputHoldsEverySuccess ==
    (pc = "done" /\ PartialFailure) =>
        /\ ~IsErrorRecord(ret)
        /\ \A k \in Succeeded :
              \E i \in 1..Len(ret) : WithoutSummary(ret)[i] = futures[k].result

\* the summary step raised: _call_llm returned a content that is not a string
SummaryRaised ==
    \E k \in 1..Len(log) : log[k].api = "llm" /\ "content" \in DOMAIN log[k].returned

(* C6 as amended: the failed fetch does not abort the call; the ranked list *)
(* holds every successfully fetched place that passes the budget filter,    *)
(* and no other place; the output is the first max_pois places of the       *)
(* ranked list, or the error record when the summary step raised.           *)
C6_SuccessesKeptUpToFilterAndLimit ==
    (pc \in {"summarize", "done"} /\ PartialFailure) =>
        /\ \A k \in Succeeded :
              _filter_by_budget(futures[k].result, budget) =>
                  \E i \in 1..Len(ranked) : ranked[i] = futures[k].result
        /\ \A i \in 1..Len(ranked) :
              \E k \in Succeeded : ranked[i] = futures[k].result
        /\ pc = "done" =>
              IF SummaryRaised THEN IsErrorRecord(ret)
              ELSE WithoutSummary(ret) = SliceTo(ranked, max_pois)

\* one fetch failed, the other succeeded, and the output is the success
C6_Witness ==
    /\ pc = "done"
    /\ PartialFailure
    /\ Len(ret) = 1
    /\ \E k \in Succeeded : WithoutSummary(ret)[1] = futures[k].result

(* C7: for a declared price level in 0..4, _filter_by_budget accepts the    *)
(* place exactly when the level is in the range of the tier: Budget {0, 1}, *)
(* Moderate {2}, Luxury {3, 4}.                                             *)
C7_FilterTierRanges ==
    (/\ fn = "_filter_by_budget"
     /\ "price_level" \in DOMAIN args.place_details
     /\ args.budget \in {"Budget", "Moderate", "Luxury"}) =>
        LET level == args.place_details.price_level
        IN out = CASE args.budget = "Budget" -> level \in {0, 1}
                   [] args.budget = "Moderate" -> level \in {2}
                   [] args.budget = "Luxury" -> level \in {3, 4}

\* level 2 passes under Moderate
C7_Witness ==
    /\ fn = "_filter_by_budget"
    /\ "price_level" \in DOMAIN args.place_details
    /\ args.place_details.price_level = 2
    /\ args.budget = "Moderate"
    /\ out = TRUE

C9_FilterUnknownTierAcceptsAll ==
    (/\ fn = "_filter_by_budget"
     /\ args.budget \notin {"Budget", "Moderate", "Luxury"}
     /\ "price_level" \in DOMAIN args.place_details) =>
        out = TRUE

C9_Witness ==
    /\ fn = "_filter_by_budget"
    /\ args.budget = "moderate"
    /\ "price_level" \in DOMAIN args.place_details
    /\ args.place_details.price_level = 4
    /\ out = TRUE

(* C10: _rank_pois is a stable descending sort: the scores of the output    *)
(* do not increase, and the places of one score stand in the output in the  *)
(* order they have in the input.                                            *)
C10_RankStableDescending ==
    fn = "_rank_pois" =>
        LET preference_lower == lower(OrEmpty(args.preferences))
            S(p) == Score(p, preference_lower)
        IN /\ \A i, j \in 1..Len(out) : i < j => S(out[i]) >= S(out[j])
           /\ \A k \in 1..Len(args.pois) :
                SelectSeq(out, LAMBDA p : S(p) = S(args.pois[k]))
                    = SelectSeq(args.pois, LAMBDA p : S(p) = S(args.pois[k]))
           /\ Len(out) = Len(args.pois)

\* two different places of one score, and the sort moved a place
C10_Witness ==
    /\ fn = "_rank_pois"
    /\ out # args.pois
    /\ \E i, j \in 1..Len(args.pois) :
          /\ i < j
          /\ args.pois[i] # args.pois[j]
          /\ Score(args.pois[i], lower(OrEmpty(args.preferences)))
                = Score(args.pois[j], lower(OrEmpty(args.preferences)))

-----------------------------------------------------------------------------
\* the preferences mention one of the words: the word is a substring of the
\* preference string, whatever the letter case
MentionsAny(prefs, words) ==
    LET text == lower(OrEmpty(prefs))
    IN \E w \in words : Contains(w, text)

HasTag(poi, tags) == \E t \in tags : t \in Get(poi, "types", {})

\* rating * 15 + min(review_count / 200 * 25, 25), in units of 1 / ScoreScale
BaseScore(poi) ==
    LET by_reviews == (Get(poi, "user_ratings_total", 0) * 25 * ScoreScale) \div 200
    IN (Get(poi, "rating", 0) * 15 * ScoreScale) \div RatingScale
       + (IF by_reviews <= 25 * ScoreScale THEN by_reviews ELSE 25 * ScoreScale)

\* one bonus: `points` when the preferences mention one of `words` and the
\* place has one of `tags`
Bonus(points, prefs, words, poi, tags) ==
    IF MentionsAny(prefs, words) /\ HasTag(poi, tags) THEN points * ScoreScale ELSE 0

(* C11: the score of a place is rating * 15 + min(review_count / 200 * 25,   *)
(* 25) plus every bonus that applies: 80 for beach or sea with the beach    *)
(* tag, 80 for temple or worship with hindu_temple, church or mosque, 60    *)
(* for historical with tourist_attraction, 30 for hotel or stay with        *)
(* lodging, 30 for food or restaurant with restaurant; a missing rating or  *)
(* review count counts as 0.                                                *)
C11_ScoreIsSumOfClaimedBonuses ==
    fn = "score" =>
        out = BaseScore(args.poi)
              + Bonus(80, args.preferences, {"beach", "sea"}, args.poi, {"beach"})
              + Bonus(80, args.preferences, {"temple", "worship"}, args.poi,
                      {"hindu_temple", "church", "mosque"})
              + Bonus(60, args.preferences, {"historical"}, args.poi, {"tourist_attraction"})
              + Bonus(30, args.preferences, {"hotel", "stay"}, args.poi, {"lodging"})
              + Bonus(30, args.preferences, {"food", "restaurant"}, args.poi, {"restaurant"})

-----------------------------------------------------------------------------
\* the detail records that pass the budget filter
Filtered == SelectSeq(results, LAMBDA d : _filter_by_budget(d, budget))

\* l is the beginning of some reordering of m
IsPrefixOfPermutation(l, m) ==
    \E f \in [1..Len(l) -> 1..Len(m)] :
        /\ \A i, j \in 1..Len(l) : i # j => f[i] # f[j]
        /\ \A i \in 1..Len(l) : l[i] = m[f[i]]

(* C12: for a non-negative max_pois the list the call returns, when it is   *)
(* not the error record, is a prefix of a permutation of the detail records *)
(* that pass the budget filter, has at most max_pois entries and has        *)
(* exactly min(max_pois, number of filtered records) entries.               *)
C12_TopKOfFiltered ==
    (pc = "done" /\ ~IsErrorRecord(ret) /\ max_pois >= 0) =>
        /\ IsPrefixOfPermutation(WithoutSummary(ret), Filtered)
        /\ Len(ret) <= max_pois
        /\ Len(ret) = (IF max_pois <= Len(Filtered) THEN max_pois ELSE Len(Filtered))

\* two records pass the filter and max_pois is 1
C12_Witness ==
    /\ pc = "done"
    /\ max_pois = 1
    /\ Len(Filtered) = 2
    /\ Len(ret) = 1

(* C13: no two places of the list the call returns have the same place      *)
(* identifier.                                                              *)
C13_FinalListUniqueIds ==
    (pc = "done" /\ ~IsErrorRecord(ret)) =>
        \A i, j \in 1..Len(ret) : i # j => ret[i].place_id # ret[j].place_id

\* the searches found one identifier twice and the output holds it once
C13_Witness ==
    /\ pc = "done"
    /\ Len(pois) = 2
    /\ "place_id" \in DOMAIN pois[1] /\ "place_id" \in DOMAIN pois[2]
    /\ pois[1].place_id = pois[2].place_id
    /\ Len(ret) = 1
    /\ ~IsErrorRecord(ret)
    /\ ret[1].place_id = pois[1].place_id

-----------------------------------------------------------------------------
(* C14: an exception raised inside the call (by the directions request, by  *)
(* the summary step) is caught by the outermost except clause: the call     *)
(* does not raise, it returns the list of exactly one record with an error  *)
(* key, and every outcome of the call is a list of places or that list.     *)
C14_ExceptionsBecomeErrorRecord ==
    /\ pc # "raised"
    /\ (Len(log) >= 1 /\ IsRaised(log[1].response)) => (pc = "done" /\ IsErrorRecord(ret))
    /\ SummaryRaised => (pc = "done" /\ IsErrorRecord(ret))
    /\ pc = "done" =>
          \/ IsErrorRecord(ret)
          \/ \A i \in 1..Len(ret) : "place_id" \in DOMAIN ret[i]

\* the places were fetched and ranked, then the summary step raised
C14_Witness ==
    /\ pc = "done"
    /\ SummaryRaised
    /\ Len(ranked) >= 1
    /\ IsErrorRecord(ret)

\* the places_nearby requests of one search term
PageRequests(t) == {k \in 1..Len(log) : log[k].api = "places_nearby" /\ log[k].term = t}

(* C15: for every search term at most three places_nearby requests are      *)
(* sent: the first page and at most two continuation pages, however many    *)
(* continuation tokens the provider returns.                                *)
C15_AtMostThreePagesPerTerm ==
    \A t \in 1..Len(search_terms) :
        /\ Cardinality(PageRequests(t)) <= 3
        /\ Cardinality({k \in PageRequests(t) : "params" \in DOMAIN log[k]}) <= 1
        /\ Cardinality({k \in PageRequests(t) : "page_token" \in DOMAIN log[k]}) <= 2

\* the response to the third request of a term carried one more token
C15_Witness ==
    /\ pc = "sleep"
    /\ Cardinality(PageRequests(term)) = 3

\* the places_nearby requests that raised
FailedRequests == {k \in 1..Len(log) : log[k].api = "places_nearby" /\ log[k].failed}

\* the loop over the search terms has ended
SearchOver == search_terms # <<>> /\ pc \in {"fetch", "summarize", "done"}

\* the step in which a places_nearby request raises
PageFailureStep ==
    /\ Len(log') = Len(log) + 1
    /\ log'[Len(log')].api = "places_nearby"
    /\ log'[Len(log')].failed

(* C16: after a failed places_nearby request no further page is requested   *)
(* for its term, every later search term is still queried, and the places   *)
(* accumulated before the failure stay in the list: the failing step leaves *)
(* the list as it is and no step removes a place from it.                   *)
C16_PageFailureEndsOnlyItsTerm ==
    /\ [](\A k \in FailedRequests :
            /\ \A j \in (k + 1)..Len(log) :
                  log[j].api = "places_nearby" => log[j].term > log[k].term
            /\ SearchOver =>
                  \A t \in (log[k].term + 1)..Len(search_terms) : PageRequests(t) # {})
    /\ [][/\ PageFailureStep => pois' = pois
          /\ Len(pois') >= Len(pois)
          /\ SubSeq(pois', 1, Len(pois)) = pois]_vars

\* the first term found a place on its first page and failed on a
\* continuation page; the second term was queried and failed too
C16_Witness ==
    /\ SearchOver
    /\ Len(search_terms) = 2
    /\ pois # <<>>
    /\ \E k \in FailedRequests : log[k].term = 1 /\ "page_token" \in DOMAIN log[k]
    /\ PageRequests(2) # {}
    /\ \A j \in PageRequests(2) : log[j].failed

-----------------------------------------------------------------------------
HasTerm(terms, type, keyword) ==
    \E k \in 1..Len(terms) : terms[k] = [type |-> type, keyword |-> keyword]

(* C18: _parse_preferences emits the term(s) of a vocabulary group exactly  *)
(* when a keyword of the group is a substring of the preference string,     *)
(* whatever the letter case: beach/sea give (beach, beach); temple/worship  *)
(* give hindu_temple, church and mosque; hotel/stay/lodging give lodging;   *)
(* food/restaurant give restaurant; historical/history give                 *)
(* tourist_attraction; museum gives museum; park gives park.                *)
C18_GroupsMatchBySubstring ==
    fn = "_parse_preferences" =>
        LET p == args.preferences
        IN /\ MentionsAny(p, {"beach", "sea"}) <=> HasTerm(out, "beach", "beach")
           /\ MentionsAny(p, {"temple", "worship"}) <=> HasTerm(out, "hindu_temple", "temple")
           /\ MentionsAny(p, {"temple", "worship"}) <=> HasTerm(out, "church", "church")
           /\ MentionsAny(p, {"temple", "worship"}) <=> HasTerm(out, "mosque", "mosque")
           /\ MentionsAny(p, {"hotel", "stay", "lodging"}) <=> HasTerm(out, "lodging", "hotel")
           /\ MentionsAny(p, {"food", "restaurant"}) <=> HasTerm(out, "restaurant", "local food")
           /\ MentionsAny(p, {"historical", "history"})
                <=> HasTerm(out, "tourist_attraction", "historical site")
           /\ MentionsAny(p, {"museum"}) <=> HasTerm(out, "museum", "museum")
           /\ MentionsAny(p, {"park"}) <=> HasTerm(out, "park", "park")

\* the keyword is in the string in another letter case only
C18_Witness ==
    /\ fn = "_parse_preferences"
    /\ HasTerm(out, "mosque", "mosque")
    /\ ~Contains("temple", OrEmpty(args.preferences))
    /\ ~Contains("worship", OrEmpty(args.preferences))
    /\ HasTerm(out, "park", "park")

\* every keyword of the vocabulary
Vocabulary ==
    {"beach", "sea", "temple", "worship", "hotel", "stay", "lodging", "food",
     "restaurant", "historical", "history", "museum", "park"}

(* C19: _parse_preferences returns the generic term (tourist_attraction,    *)
(* attraction), and nothing else, exactly when no keyword of the vocabulary *)
(* matches; when a keyword matches, the generic term is not in the output.  *)
C19_FallbackExactlyWhenNoMatch ==
    fn = "_parse_preferences" =>
        /\ ~MentionsAny(args.preferences, Vocabulary) =>
              out = <<[type |-> "tourist_attraction", keyword |-> "attraction"]>>
        /\ MentionsAny(args.preferences, Vocabulary) =>
              ~HasTerm(out, "tourist_attraction", "attraction")

\* words are given and none is a keyword
C19_Witness ==
    /\ fn = "_parse_preferences"
    /\ Contains("zoo", OrEmpty(args.preferences))
    /\ Contains("local", OrEmpty(args.preferences))
    /\ out = <<[type |-> "tourist_attraction", keyword |-> "attraction"]>>

\* the leg endpoints of a route that carry both lat and lng
Endpoints(route) ==
    LET legs == Get(route, "legs", <<>>)
    IN {legs[k].start_location :
            k \in {i \in 1..Len(legs) : /\ "start_location" \in DOMAIN legs[i]
                                         /\ HasLatLng(legs[i].start_location)}}
       \cup {legs[k].end_location :
            k \in {i \in 1..Len(legs) : /\ "end_location" \in DOMAIN legs[i]
                                         /\ HasLatLng(legs[i].end_location)}}

(* C20: the bounds _get_route_bounds returns cover the start and the end of *)
(* every leg of the route: southwest <= endpoint <= northeast in lat and in *)
(* lng, with northeast the greatest and southwest the least of the          *)
(* coordinates of all these endpoints.                                      *)
C20_BoundsCoverEveryLeg ==
    (fn = "_get_route_bounds" /\ out # None) =>
        LET points == Endpoints(args.route)
        IN /\ \A e \in points :
                /\ out.southwest.lat <= e.lat /\ e.lat <= out.northeast.lat
                /\ out.southwest.lng <= e.lng /\ e.lng <= out.northeast.lng
           /\ \E e \in points : e.lat = out.northeast.lat
           /\ \E e \in points : e.lng = out.northeast.lng
           /\ \E e \in points : e.lat = out.southwest.lat
           /\ \E e \in points : e.lng = out.southwest.lng

\* the end of the second leg lies north of both endpoints of the first
C20_Witness ==
    /\ fn = "_get_route_bounds"
    /\ out # None
    /\ Len(args.route.legs) = 2
    /\ \A k \in 1..2 : DOMAIN args.route.legs[k] = {"start_location", "end_location"}
    /\ HasLatLng(args.route.legs[1].start_location)
    /\ HasLatLng(args.route.legs[1].end_location)
    /\ HasLatLng(args.route.legs[2].end_location)
    /\ args.route.legs[2].end_location.lat > args.route.legs[1].start_location.lat
    /\ args.route.legs[2].end_location.lat > args.route.legs[1].end_location.lat
    /\ out.northeast.lat = args.route.legs[2].end_location.lat

-----------------------------------------------------------------------------
\* the language-model calls of the summary step, as positions of the log
LlmCalls == {j \in 1..Len(log) : log[j].api = "llm"}

\* the call for the k-th of the top places returned None: the request failed
\* or its response had none of the known shapes
SummaryCallGaveNone(k) ==
    \E j \in LlmCalls :
        /\ log[j].poi = k
        /\ "text" \in DOMAIN log[j].returned
        /\ log[j].returned.text = <<>>

(* C21: when the language-model call for one of the top places fails or     *)
(* yields no recognised text, the call returns the top places and not the   *)
(* error record, that place has no summary key, and one call was made for   *)
(* every top place, in the order of the list.                               *)
C21_FailedSummaryNeverAbortsBatch ==
    \A k \in 1..Len(top_pois) :
        (pc = "done" /\ SummaryCallGaveNone(k)) =>
            /\ ~IsErrorRecord(ret)
            /\ WithoutSummary(ret) = SliceTo(ranked, max_pois)
            /\ "summary" \notin DOMAIN ret[k]
            /\ Cardinality(LlmCalls) = Len(top_pois)
            /\ \A i, j \in LlmCalls : i < j => log[i].poi < log[j].poi

-----------------------------------------------------------------------------
\* the value the known shape of a response holds, <<>> when the interface is
\* missing, raises, or answers in no known shape; for every interface in the
\* order _call_llm tries them
Probes(client) ==
    GenerateStep(client) \o CallableStep(client)
        \o MethodStep(client, "predict") \o MethodStep(client, "invoke")

\* a non-empty string, a non-empty list
NonEmpty(v) == IF IsStr(v) THEN v.str # "" ELSE v.list # <<>>

(* C22: _call_llm returns the first of the probed shapes that is non-empty: *)
(* when an earlier shape holds an empty text and a later shape a non-empty  *)
(* one, the later one is returned.                                          *)
C22_FirstNonEmptyShapeWins ==
    fn = "_call_llm" =>
        LET filled == SelectSeq(Probes(args.llm), NonEmpty)
        IN filled # <<>> => out = Returned(filled[1])

-----------------------------------------------------------------------------
\* the place with one field set to another value
WithField(poi, field, value) ==
    [f \in DOMAIN poi \cup {field} |-> IF f = field THEN value ELSE poi[f]]

\* ratings (in tenths) and review counts to compare the scored place with
RatingValues == {0, 10, 30, 40, 42, 45, 50}
ReviewValues == {0, 1, 50, 100, 199, 200, 201, 300, 1000}

(* C23: with the preferences, the tags and the other field fixed, the score *)
(* does not decrease when the rating increases and does not decrease when   *)
(* the review count increases; from 200 reviews on the review contribution  *)
(* is the cap of 25.                                                        *)
C23_ScoreMonotoneInRatingAndReviews ==
    fn = "score" =>
        LET preference_lower == lower(OrEmpty(args.preferences))
            S(p) == Score(p, preference_lower)
            rating == Get(args.poi, "rating", 0)
            reviews == Get(args.poi, "user_ratings_total", 0)
        IN /\ out = S(args.poi)
           /\ \A r \in RatingValues :
                /\ r >= rating => S(WithField(args.poi, "rating", r)) >= out
                /\ r <= rating => S(WithField(args.poi, "rating", r)) <= out
           /\ \A n \in ReviewValues :
                /\ n >= reviews => S(WithField(args.poi, "user_ratings_total", n)) >= out
                /\ n <= reviews => S(WithField(args.poi, "user_ratings_total", n)) <= out
                /\ n >= 200 =>
                      S(WithField(args.poi, "user_ratings_total", n))
                        = S(WithField(args.poi, "user_ratings_total", 0)) + 25 * ScoreScale

\* a place of 300 reviews scores what it would score with 200, and more than
\* it would with 199
C23_Witness ==
    /\ fn = "score"
    /\ Get(args.poi, "user_ratings_total", 0) = 300
    /\ args.preferences = <<"Beach">>
    /\ out = Score(WithField(args.poi, "user_ratings_total", 200), "beach")
    /\ out > Score(WithField(args.poi, "user_ratings_total", 199), "beach")
    /\ out > Score(WithField(args.poi, "rating", 42), "beach")

-----------------------------------------------------------------------------
\* the detail records the fetch of the call collected
Detailed == {results[k] : k \in 1..Len(results)}

(* C24: with preferences 'beach' and three detailed places, a beach of      *)
(* rating 4.5 and 300 reviews and two restaurants of rating 4.0 and 50      *)
(* reviews, the beach is the first place of the list the call returns       *)
(* (max_pois at least 1), in whatever order the details arrived.            *)
C24_BeachRanksFirst ==
    (/\ pc = "done"
     /\ preferences = <<"beach">>
     /\ max_pois >= 1
     /\ Len(results) = 3
     /\ Detailed = {DetailOf("p1"), DetailOf("p2"), DetailOf("p3")}) =>
        /\ ret # <<>>
        /\ ret[1] = DetailOf("p1")
        /\ \A k \in 2..Len(ret) : "restaurant" \in ret[k].types

\* the details of the beach arrived last and the three places are returned
C24_Witness ==
    /\ pc = "done"
    /\ preferences = <<"beach">>
    /\ Len(results) = 3
    /\ results[3] = DetailOf("p1")
    /\ Len(ret) = 3
    /\ ret[1] = DetailOf("p1")

-----------------------------------------------------------------------------
\* the detail fetches in flight: submitted and not completed
InFlight == {k \in 1..Len(futures) : futures[k].state # "done"}

\* the step in which the caller leaves the fetch and filters and ranks
FilterStep == pc = "fetch" /\ pc' # "fetch"

(* C25: the budget filter and the ranker run only after every submitted     *)
(* detail fetch has finished or failed: no fetch is in flight when they     *)
(* start or afterwards, every submitted fetch has sent its request, and no  *)
(* step takes a future back or away.                                        *)
C25_FilterAfterEveryFetch ==
    /\ [](pc \in {"summarize", "done"} =>
            /\ InFlight = {}
            /\ Len(futures) = Len(place_ids)
            /\ \A k \in 1..Len(futures) : DetailRequests(futures[k].pid) # {})
    /\ [][/\ FilterStep => (InFlight = {} /\ futures' = futures)
          /\ Len(futures') = Len(futures)
          /\ \A k \in 1..Len(futures) :
                /\ futures[k].state = "running" => futures'[k].state \in {"running", "done"}
                /\ futures[k].state = "done" => futures'[k] = futures[k]]_vars

\* three fetches: one failed, one found nothing, one succeeded, and the call
\* returned after the last of them
C25_Witness ==
    /\ pc = "done"
    /\ Len(futures) = 3
    /\ \E k \in 1..3 : IsRaised(futures[k].response)
    /\ \E k \in 1..3 : futures[k].result # <<>>
    /\ Len(results) = 1
    /\ Len(ret) = 1

-----------------------------------------------------------------------------
(* C26: while _fetch_place_details_concurrent runs over n identifiers, at   *)
(* most min(8, n) detail requests are in flight at the same time; the pool  *)
(* has min(8, n) workers, and one worker when n is 0.                       *)
C26_InFlightAtMostPoolSize ==
    LET n == Len(place_ids)
    IN pc \in {"fetch", "summarize", "done"} =>
          /\ Cardinality(Running) <= (IF n <= 8 THEN n ELSE 8)
          /\ n = 0 => max_workers = 1
          /\ n > 0 => max_workers = (IF n <= 8 THEN n ELSE 8)
          /\ Cardinality(Running) <= max_workers

\* nine identifiers: eight requests in flight and the ninth fetch waiting
C26_Witness ==
    /\ pc = "fetch"
    /\ Len(place_ids) = 9
    /\ Cardinality(Running) = 8
    /\ futures[9].state = "pending"

-----------------------------------------------------------------------------
\* the requests that carry a continuation token
ContinuationRequests == {k \in PageRequests(term) : "page_token" \in DOMAIN log[k]}

(* C27: every places_nearby request that carries a continuation token      *)
(* comes right after the delay of 2 seconds, which comes right after the    *)
(* response of the same term that carried the token; a request that is      *)
(* about to use a token has the delay behind it.                            *)
C27_DelayBeforeContinuation ==
    /\ \A k \in 1..Len(log) :
          (log[k].api = "places_nearby" /\ "page_token" \in DOMAIN log[k]) =>
              /\ k >= 3
              /\ log[k - 1] = [api |-> "sleep", tenths |-> 20]
              /\ log[k - 2].api = "places_nearby"
              /\ log[k - 2].term = log[k].term
              /\ ~log[k - 2].failed
    /\ (pc = "search" /\ page_token # "") =>
          log[Len(log)] = [api |-> "sleep", tenths |-> 20]
    /\ pc = "sleep" => (log[Len(log)].api = "places_nearby" /\ page_token # "")

\* two continuation requests of one term, each behind its delay
C27_Witness ==
    /\ Cardinality(ContinuationRequests) = 2
    /\ Cardinality({k \in 1..Len(log) : log[k].api = "sleep" /\ log[k].tenths = 20}) >= 2

-----------------------------------------------------------------------------
\* the detail records in the order of submission: what the fetch collects
\* when the requests complete in the order they were submitted in
InSubmissionOrder ==
    SelectSeq([k \in 1..Len(futures) |-> futures[k].result], LAMBDA r : r # <<>>)

(* C28: for fixed responses of the providers the list the call returns is   *)
(* the same under every completion order of the detail fetches: it is the   *)
(* list the call returns when the fetches complete in the order of          *)
(* submission, which is one of the completion orders.                       *)
C28_SameListUnderEveryCompletionOrder ==
    pc = "done" =>
        ret = SliceTo(_rank_pois(SelectSeq(InSubmissionOrder,
                                           LAMBDA d : _filter_by_budget(d, budget)),
                                 preferences),
                      max_pois)

-----------------------------------------------------------------------------
(* C29: when generate_travel_video has returned a path, the file of that    *)
(* path exists, and the session reaches the state video_generated.          *)
C29_ReturnedVideoExists ==
    /\ (ui_pc = "returned" /\ video_path # None) => video_path[1] \in files
    /\ (ui_pc = "idle" /\ video_path # None) => session_state.video_generated

\* a value of the session that is not None (a key not yet there counts as None)
IsSet(key) == Get(session_state, key, None) # None

(* C30: in every state of a session the script is set only if the itinerary *)
(* is set, and video_generated is true only if the script is set; and no    *)
(* step takes the itinerary or the script from set back to unset.           *)
C30_SessionStagesInOrder ==
    /\ [](/\ IsSet("video_script") => IsSet("itinerary")
          /\ Get(session_state, "video_generated", FALSE) = TRUE
                => IsSet("video_script"))
    /\ [][/\ IsSet("itinerary") => IsSet("itinerary")'
          /\ IsSet("video_script") => IsSet("video_script")']_vars

\* a second itinerary has been generated in a session that holds a script,
\* and a video generation has run to its end in it
C30_Witness ==
    /\ ui_pc = "idle"
    /\ IsSet("video_script")
    /\ IsSet("itinerary")
    /\ session_state.itinerary[1].budget = "Luxury"
    /\ video_path # None
    /\ message = "Itinerary generated successfully!"

=============================================================================
